---- MODULE Spec2Model ----
(***************************************************************************)
(* VLVector<T, StaticCapacity> (src/VLVector.hpp): a vector that keeps its *)
(* elements in a buffer embedded in the object while they fit, and in a    *)
(* heap block otherwise.                                                   *)
(*                                                                         *)
(* Memory is modelled explicitly: every object has its _staticMem array,   *)
(* the allocator hands out numbered blocks, and a T* is a pair             *)
(* <<base, offset>>, where base names either an object's _staticMem or a   *)
(* heap block.  delete[] marks a block released, its contents becoming     *)
(* indeterminate; new T[n] may hand out any block that is not allocated, a *)
(* released one included (address reuse).                                  *)
(***************************************************************************)
EXTENDS Integers, Sequences, FiniteSets, TLC

\* The template argument StaticCapacity of the program with two objects, and
\* of the programs with one.
CapTwoObjects == 1
CapOneObject == 2
\* Largest number of elements a container of the two-object model may hold.
MaxSize == 2
\* Largest number of elements the container of the one-object models may hold.
MaxSizeOne == 5
\* Longest source range handed to insert(pos, first, last).
MaxRange == 3
\* Number of blocks the allocator can hand out.
NBlocks == 2

\* The objects of the program: two VLVector<T, StaticCapacity> variables.
Objs == {"a", "b"}
\* The values of T.
Val == {"x", "y"}
\* Content of a slot that holds no value of T: one never written (new T[n] and
\* T _staticMem[n] default-initialise, which for a scalar T writes nothing),
\* or one of a released block.
Uninit == "uninit"
Blocks == 1..NBlocks

\* Outcomes of a store through a pointer into a released block (undefined
\* behaviour): the store lands in the released block, or it is lost.
UBOutcomes == {"stored", "dropped"}

VARIABLES
  StaticCapacity, \* the template argument the program instantiates VLVector with
  obj,    \* obj[o]: the fields of object o (alive, _staticMem, _data, _size, _capacity)
  heap,   \* heap[k]: block k of the allocator (live, cells)
  last    \* the last call made: its operation, arguments and returned iterator

vars == <<StaticCapacity, obj, heap, last>>

\* ------------------------------------------------------------------------
\* Pointers and memory
\* ------------------------------------------------------------------------
StaticBase(o) == <<"static", o>>
HeapBase(k) == <<"heap", k>>
NullBase == <<"null", 0>>
IsHeap(base) == base[1] = "heap"
IsStatic(base) == base[1] = "static"

UninitCells(n) == [c \in 1..n |-> Uninit]

\* A machine state: the objects, the heap, and what went wrong so far in the
\* call being executed.
Machine(ob, hp) ==
  [obj |-> ob, heap |-> hp, uaf |-> FALSE, badFree |-> FALSE, oob |-> FALSE,
   freedInline |-> FALSE]

\* *(base + off)
Load(m, base, off) ==
  IF IsStatic(base)
    THEN IF off < StaticCapacity THEN m.obj[base[2]].staticMem[off + 1] ELSE Uninit
    ELSE IF off < Len(m.heap[base[2]].cells) THEN m.heap[base[2]].cells[off + 1]
         ELSE Uninit

\* A read of a slot of base: one of a released block is noted.
Read(m, base) ==
  IF IsHeap(base) /\ ~m.heap[base[2]].live THEN [m EXCEPT !.uaf = TRUE] ELSE m

\* *(base + off) = v.  ub is the outcome of the store when base is a released
\* block.
Store(m, base, off, v, ub) ==
  IF IsStatic(base)
    THEN IF off < StaticCapacity
           THEN [m EXCEPT !.obj[base[2]].staticMem[off + 1] = v]
           ELSE [m EXCEPT !.oob = TRUE]
    ELSE IF off >= Len(m.heap[base[2]].cells)
           THEN [m EXCEPT !.oob = TRUE, !.uaf = @ \/ ~m.heap[base[2]].live]
         ELSE IF m.heap[base[2]].live
           THEN [m EXCEPT !.heap[base[2]].cells[off + 1] = v]
         ELSE IF ub = "stored"
           THEN [m EXCEPT !.heap[base[2]].cells[off + 1] = v, !.uaf = TRUE]
         ELSE [m EXCEPT !.uaf = TRUE]

\* new T[n], the allocator handing out block k.
New(m, k, n) ==
  [m EXCEPT !.heap[k] = [live |-> TRUE, cells |-> UninitCells(n)]]

\* delete[] base (delete[] nullptr does nothing).
Delete(m, base) ==
  IF ~IsHeap(base)
    THEN (IF base = NullBase THEN m
          ELSE [m EXCEPT !.badFree = TRUE, !.freedInline = TRUE])
  ELSE IF m.heap[base[2]].live
    THEN [m EXCEPT !.heap[base[2]] =
                     [live |-> FALSE, cells |-> UninitCells(Len(@.cells))]]
    ELSE [m EXCEPT !.badFree = TRUE]

DeadBlocks(hp) == {k \in Blocks : ~hp[k].live}

\* std::copy(sb + s0, sb + s0 + n, db + d0): element by element, front first.
RECURSIVE CopyLoop(_, _, _, _, _, _, _, _)
CopyLoop(m, sb, s0, db, d0, c, n, ub) ==
  IF c >= n THEN m
  ELSE CopyLoop(Store(Read(m, sb), db, d0 + c, Load(m, sb, s0 + c), ub),
                sb, s0, db, d0, c + 1, n, ub)

StdCopy(m, sb, s0, n, db, d0, ub) == CopyLoop(m, sb, s0, db, d0, 0, n, ub)

\* std::copy_backward(sb + s0, sb + s0 + n, db + dEnd): element by element,
\* back first, the last element landing at db + dEnd - 1.
RECURSIVE CopyBackwardLoop(_, _, _, _, _, _, _, _)
CopyBackwardLoop(m, sb, s0, db, dEnd, c, n, ub) ==
  IF c >= n THEN m
  ELSE CopyBackwardLoop(Store(Read(m, sb), db, dEnd - 1 - c,
                              Load(m, sb, s0 + n - 1 - c), ub),
                        sb, s0, db, dEnd, c + 1, n, ub)

StdCopyBackward(m, sb, s0, n, db, dEnd, ub) ==
  CopyBackwardLoop(m, sb, s0, db, dEnd, 0, n, ub)

\* WriteRange with the loop ended one element early.
RECURSIVE WriteRangeShort(_, _, _, _, _, _)
WriteRangeShort(m, base, off, R, c, ub) ==
  IF c >= Len(R) THEN m
  ELSE WriteRangeShort(Store(m, base, off + c - 1, R[c], ub), base, off, R, c + 1, ub)

\* The write routines of the insertions: std::copy(first, last, base + off)
\* from a source range R that is outside the container, and
\* base[off] = value, where R is <<value>>.
RECURSIVE WriteRange(_, _, _, _, _, _)
WriteRange(m, base, off, R, c, ub) ==
  IF c > Len(R) THEN m
  ELSE WriteRange(Store(m, base, off + c - 1, R[c], ub), base, off, R, c + 1, ub)

\* ------------------------------------------------------------------------
\* Observers
\* ------------------------------------------------------------------------
size(o) == obj[o]._size
capacity(o) == obj[o]._capacity
data(o) == obj[o]._data
begin(o) == <<obj[o]._data, 0>>
end(o) == <<obj[o]._data, obj[o]._size>>

\* The sequence an iteration from begin() to end() yields in machine state m.
ElemsIn(m, o) ==
  [c \in 1..m.obj[o]._size |-> Load(m, m.obj[o]._data, c - 1)]

Elems(o) == ElemsIn(Machine(obj, heap), o)

\* o == other: end() - begin() == other.end() - other.begin()
\*             && std::equal(begin(), end(), other.begin())
Equals(o, other) ==
  /\ obj[o]._size = obj[other]._size
  /\ \A c \in 0..(obj[o]._size - 1) :
       Load(Machine(obj, heap), obj[o]._data, c)
         = Load(Machine(obj, heap), obj[other]._data, c)

\* operator[](idx) { return _data[idx]; }: the slot the T& returned refers to
\* (ret) and what a read through it yields (val).  No bound is checked.
subscript(m, o, idx) ==
  [ret |-> <<m.obj[o]._data, idx>>, val |-> Load(m, m.obj[o]._data, idx)]

\* at with the bound tested by > where the code has >=.
atOffByOne(m, o, index) ==
  IF index > m.obj[o]._size
    THEN [thrown |-> TRUE, ret |-> <<NullBase, 0>>, val |-> "none"]
    ELSE [thrown |-> FALSE, ret |-> <<m.obj[o]._data, index>>,
          val |-> Load(m, m.obj[o]._data, index)]

\* at(index): throws std::out_of_range if index >= _size, and returns
\* _data[index] otherwise.
at(m, o, index) ==
  IF index >= m.obj[o]._size
    THEN [thrown |-> TRUE, ret |-> <<NullBase, 0>>, val |-> "none"]
    ELSE [thrown |-> FALSE, ret |-> <<m.obj[o]._data, index>>,
          val |-> Load(m, m.obj[o]._data, index)]

\* ------------------------------------------------------------------------
\* Construction
\* ------------------------------------------------------------------------
\* VLVector(): _data(_staticMem), _size(0), _capacity(StaticCapacity)
DefaultObject(o) ==
  [alive |-> TRUE, staticMem |-> UninitCells(StaticCapacity),
   _data |-> StaticBase(o), _size |-> 0, _capacity |-> StaticCapacity]

\* An object whose lifetime has ended (or not begun): its storage holds nothing.
NoObject(o) == [DefaultObject(o) EXCEPT !.alive = FALSE]

\* What a caller can observe of the objects: size(), capacity(), data() and
\* the elements an iteration yields.
Snapshot ==
  [p \in Objs |-> [alive |-> obj[p].alive, size |-> obj[p]._size,
                   capacity |-> obj[p]._capacity, data |-> obj[p]._data,
                   elems |-> Elems(p)]]

NoSnapshot ==
  [p \in Objs |-> [alive |-> FALSE, size |-> 0, capacity |-> 0, data |-> NullBase,
                   elems |-> <<>>]]

\* The record of a call: the member function called (op), the object it ran
\* on (o),
\* the source object of a copy (src), the positions and the source range
\* passed (i, j, R), the iterator returned (ret), what the objects looked like
\* when the call was made (pre), and whether the call touched a released
\* block or outside a block (uaf), released what was not allocated (badFree)
\* or passed an inline buffer to delete[] (freedInline).
\* A call that returns a T& has the slot referred to in ret and its content in
\* val; thrown tells that the call threw std::out_of_range instead of
\* returning, and truth is the bool a comparison returned.
NoValue == "none"

NoCall ==
  [op |-> "none", o |-> "a", src |-> "a", i |-> 0, j |-> 0, R |-> <<>>,
   ret |-> <<NullBase, 0>>, pre |-> NoSnapshot, uaf |-> FALSE, badFree |-> FALSE,
   val |-> NoValue, thrown |-> FALSE, truth |-> FALSE, freedInline |-> FALSE]

Call(op, o, src, i, j, R, ret, m) ==
  [op |-> op, o |-> o, src |-> src, i |-> i, j |-> j, R |-> R, ret |-> ret,
   pre |-> Snapshot, uaf |-> m.uaf \/ m.oob, badFree |-> m.badFree,
   val |-> NoValue, thrown |-> FALSE, truth |-> FALSE,
   freedInline |-> m.freedInline]

\* The blocks new T[n] can return when the call allocates; a call that does
\* not allocate draws nothing from the allocator.
AllocChoices(hp, allocates) == IF allocates THEN DeadBlocks(hp) ELSE {0}

\* ------------------------------------------------------------------------
\* Growth policy
\* ------------------------------------------------------------------------
\* GROWTH_FACTOR (3.0 / 2.0)
GrowthNum == 3
GrowthDen == 2

\* _cap called without its argument, which then defaults to 1.
_capDefaultArg(sz, additionalSize) ==
  IF sz + 1 <= StaticCapacity
    THEN StaticCapacity
    ELSE (GrowthNum * (sz + 1)) \div GrowthDen

\* _cap(additionalSize) on a container of sz elements.  The product is exact
\* in double arithmetic for the sizes modelled, so std::floor of it is the
\* integer quotient.
_cap(sz, additionalSize) ==
  IF sz + additionalSize <= StaticCapacity
    THEN StaticCapacity
    ELSE (GrowthNum * (sz + additionalSize)) \div GrowthDen

\* ------------------------------------------------------------------------
\* The insert engine
\* ------------------------------------------------------------------------
\* _pushAt(pos, numOfElements, pushElements) on object o, pos = _data + posOff.
\* k is the block new T[] returns if the call reallocates.
\* With numOfElements = 0 and pos < end() the copy_backward has d_last = last,
\* which the loop below executes as the libraries do: every element is
\* assigned to itself.
\* _pushAtShift without the assignment to _capacity.
_pushAtShiftKeepCapacity(m, o, posOff, numOfElements, k, ub) ==
  LET me == m.obj[o]
      oldData == me._data
      initialEnd == me._size
      grow == me._size + numOfElements > me._capacity
      newMem == HeapBase(k)
      mNew == IF grow THEN New(m, k, _cap(me._size, numOfElements)) ELSE m
      oldMem == IF grow /\ ~(me._capacity <= StaticCapacity) THEN oldData ELSE NullBase
      mCap == mNew
      mPrefix == IF grow THEN StdCopy(mCap, oldData, 0, posOff, newMem, 0, ub) ELSE mCap
      mData == IF grow THEN [mPrefix EXCEPT !.obj[o]._data = newMem] ELSE mPrefix
      mShift == StdCopyBackward(mData, oldData, posOff, initialEnd - posOff,
                                mData.obj[o]._data, me._size + numOfElements, ub)
  IN [m |-> mShift, oldMem |-> oldMem]

\* _pushAtShift without the copy of [begin, pos) into the new block.
_pushAtShiftNoPrefix(m, o, posOff, numOfElements, k, ub) ==
  LET me == m.obj[o]
      oldData == me._data
      initialEnd == me._size
      grow == me._size + numOfElements > me._capacity
      newMem == HeapBase(k)
      mNew == IF grow THEN New(m, k, _cap(me._size, numOfElements)) ELSE m
      oldMem == IF grow /\ ~(me._capacity <= StaticCapacity) THEN oldData ELSE NullBase
      mCap == IF grow
                THEN [mNew EXCEPT !.obj[o]._capacity = _cap(me._size, numOfElements)]
                ELSE mNew
      mPrefix == mCap
      mData == IF grow THEN [mPrefix EXCEPT !.obj[o]._data = newMem] ELSE mPrefix
      mShift == StdCopyBackward(mData, oldData, posOff, initialEnd - posOff,
                                mData.obj[o]._data, me._size + numOfElements, ub)
  IN [m |-> mShift, oldMem |-> oldMem]

\* The first part, up to the shift: the machine state before pushElements
\* runs, and oldMem.
_pushAtShift(m, o, posOff, numOfElements, k, ub) ==
  LET me == m.obj[o]
      oldData == me._data
      initialEnd == me._size
      grow == me._size + numOfElements > me._capacity
      newMem == HeapBase(k)
      mNew == IF grow THEN New(m, k, _cap(me._size, numOfElements)) ELSE m
      oldMem == IF grow /\ ~(me._capacity <= StaticCapacity) THEN oldData ELSE NullBase
      mCap == IF grow
                THEN [mNew EXCEPT !.obj[o]._capacity = _cap(me._size, numOfElements)]
                ELSE mNew
      mPrefix == IF grow THEN StdCopy(mCap, oldData, 0, posOff, newMem, 0, ub) ELSE mCap
      mData == IF grow THEN [mPrefix EXCEPT !.obj[o]._data = newMem] ELSE mPrefix
      mShift == StdCopyBackward(mData, oldData, posOff, initialEnd - posOff,
                                mData.obj[o]._data, me._size + numOfElements, ub)
  IN [m |-> mShift, oldMem |-> oldMem]

\* pushElements is the closure passed in, given by what it captured: the
\* index it writes at and the values it writes there, through the _data of
\* the moment it runs.
_pushAt(m, o, posOff, numOfElements, pushElements, k, ub) ==
  LET shifted == _pushAtShift(m, o, posOff, numOfElements, k, ub)
      mPush == WriteRange(shifted.m, shifted.m.obj[o]._data, pushElements.idx,
                          pushElements.values, 1, ub)
      mSize == [mPush EXCEPT !.obj[o]._size = @ + numOfElements]
  IN Delete(mSize, shifted.oldMem)

\* push_back(value): _pushAt(cend(), 1, [&]() { _data[_size] = value; })
\* (_size is not assigned before the closure runs).
push_back(m, o, value, k, ub) ==
  _pushAt(m, o, m.obj[o]._size, 1,
          [idx |-> m.obj[o]._size, values |-> <<value>>], k, ub)

\* insert(pos, value), pos = begin() + idx: the machine state after the call
\* and the iterator returned.
insertValue(m, o, idx, value, k, ub) ==
  LET mOut == _pushAt(m, o, idx, 1, [idx |-> idx, values |-> <<value>>], k, ub)
  IN [m |-> mOut, ret |-> <<mOut.obj[o]._data, idx>>]

\* insert(pos, first, last), pos = begin() + posIdx, [first, last) = R.
insertRange(m, o, posIdx, R, k, ub) ==
  LET mOut == _pushAt(m, o, posIdx, Len(R), [idx |-> posIdx, values |-> R], k, ub)
  IN [m |-> mOut, ret |-> <<mOut.obj[o]._data, posIdx>>]

\* ------------------------------------------------------------------------
\* The erase engine
\* ------------------------------------------------------------------------
\* erase shrinking whenever the container is on the heap, however many
\* elements remain.
eraseShrinkAlways(m, o, firstIdx, lastIdx, ub) ==
  LET me == m.obj[o]
      oldData == me._data
      initEnd == me._size
      toRemoveSize == lastIdx - firstIdx
      shrink == me._capacity > StaticCapacity
      mPrefix == IF shrink
                   THEN StdCopy(m, oldData, 0, firstIdx, StaticBase(o), 0, ub)
                   ELSE m
      oldMem == IF shrink THEN oldData ELSE NullBase
      mData == IF shrink
                 THEN [mPrefix EXCEPT !.obj[o]._data = StaticBase(o),
                                      !.obj[o]._capacity = StaticCapacity]
                 ELSE mPrefix
      mShift == StdCopy(mData, oldData, lastIdx, initEnd - lastIdx,
                        mData.obj[o]._data, firstIdx, ub)
      mSize == [mShift EXCEPT !.obj[o]._size = @ - toRemoveSize]
      mOut == Delete(mSize, oldMem)
  IN [m |-> mOut, ret |-> <<mOut.obj[o]._data, firstIdx>>]

\* erase shrinking only once fewer than StaticCapacity elements remain.
eraseLate(m, o, firstIdx, lastIdx, ub) ==
  LET me == m.obj[o]
      oldData == me._data
      initEnd == me._size
      toRemoveSize == lastIdx - firstIdx
      shrink == me._capacity > StaticCapacity
                /\ me._size - toRemoveSize < StaticCapacity
      mPrefix == IF shrink
                   THEN StdCopy(m, oldData, 0, firstIdx, StaticBase(o), 0, ub)
                   ELSE m
      oldMem == IF shrink THEN oldData ELSE NullBase
      mData == IF shrink
                 THEN [mPrefix EXCEPT !.obj[o]._data = StaticBase(o),
                                      !.obj[o]._capacity = StaticCapacity]
                 ELSE mPrefix
      mShift == StdCopy(mData, oldData, lastIdx, initEnd - lastIdx,
                        mData.obj[o]._data, firstIdx, ub)
      mSize == [mShift EXCEPT !.obj[o]._size = @ - toRemoveSize]
      mOut == Delete(mSize, oldMem)
  IN [m |-> mOut, ret |-> <<mOut.obj[o]._data, firstIdx>>]

\* erase without the copy of [begin, first) into the inline buffer.
eraseNoPrefix(m, o, firstIdx, lastIdx, ub) ==
  LET me == m.obj[o]
      oldData == me._data
      initEnd == me._size
      toRemoveSize == lastIdx - firstIdx
      shrink == me._capacity > StaticCapacity
                /\ me._size - toRemoveSize <= StaticCapacity
      mPrefix == m
      oldMem == IF shrink THEN oldData ELSE NullBase
      mData == IF shrink
                 THEN [mPrefix EXCEPT !.obj[o]._data = StaticBase(o),
                                      !.obj[o]._capacity = StaticCapacity]
                 ELSE mPrefix
      mShift == StdCopy(mData, oldData, lastIdx, initEnd - lastIdx,
                        mData.obj[o]._data, firstIdx, ub)
      mSize == [mShift EXCEPT !.obj[o]._size = @ - toRemoveSize]
      mOut == Delete(mSize, oldMem)
  IN [m |-> mOut, ret |-> <<mOut.obj[o]._data, firstIdx>>]

\* erase(first, last), first = begin() + firstIdx, last = begin() + lastIdx.
erase(m, o, firstIdx, lastIdx, ub) ==
  LET me == m.obj[o]
      oldData == me._data
      initEnd == me._size
      toRemoveSize == lastIdx - firstIdx
      shrink == me._capacity > StaticCapacity
                /\ me._size - toRemoveSize <= StaticCapacity
      mPrefix == IF shrink
                   THEN StdCopy(m, oldData, 0, firstIdx, StaticBase(o), 0, ub)
                   ELSE m
      oldMem == IF shrink THEN oldData ELSE NullBase
      mData == IF shrink
                 THEN [mPrefix EXCEPT !.obj[o]._data = StaticBase(o),
                                      !.obj[o]._capacity = StaticCapacity]
                 ELSE mPrefix
      mShift == StdCopy(mData, oldData, lastIdx, initEnd - lastIdx,
                        mData.obj[o]._data, firstIdx, ub)
      mSize == [mShift EXCEPT !.obj[o]._size = @ - toRemoveSize]
      mOut == Delete(mSize, oldMem)
  IN [m |-> mOut, ret |-> <<mOut.obj[o]._data, firstIdx>>]

\* erase(pos) { return erase(pos, pos + 1); }
eraseOne(m, o, idx, ub) == erase(m, o, idx, idx + 1, ub)

\* pop_back() { erase(cend() - 1); }
pop_back(m, o, ub) == eraseOne(m, o, m.obj[o]._size - 1, ub).m

\* clear() { erase(begin(), end()); }
clear(m, o, ub) == erase(m, o, 0, m.obj[o]._size, ub).m

\* ------------------------------------------------------------------------
\* Copying and destruction
\* ------------------------------------------------------------------------
\* _copyMembers(other) on object o.  k is the block new T[] returns if the
\* source is on the heap.
_copyMembers(m, o, other, k, ub) ==
  LET src == m.obj[other]
      mData == IF src._capacity > StaticCapacity
                 THEN [New(m, k, src._capacity) EXCEPT !.obj[o]._data = HeapBase(k)]
                 ELSE m
      mCap == [mData EXCEPT !.obj[o]._capacity = src._capacity]
      mCopy == StdCopy(mCap, src._data, 0, src._size, mCap.obj[o]._data, 0, ub)
  IN [mCopy EXCEPT !.obj[o]._size = src._size]

\* The first half of operator=(other) on object o /= other: the release of
\* the block held.
assignRelease(m, o) ==
  IF m.obj[o]._capacity > StaticCapacity THEN Delete(m, m.obj[o]._data) ELSE m

\* operator=(other) on object o.
assign(m, o, other, k, ub) ==
  IF other = o THEN m
  ELSE _copyMembers(assignRelease(m, o), o, other, k, ub)

\* operator!=(other) on object o: { return !operator=(other); }.  The body
\* names the copy assignment, not operator==.  VLVector has no operator! and
\* converts to nothing that has one (and operator= is no const member), so a
\* use of != is ill-formed and no build gives the expression a value: neg is
\* the bool returned, left open.
operatorNotEqual(m, o, other, k, ub, neg) ==
  [m |-> assign(m, o, other, k, ub), truth |-> neg]

\* VLVector(VLVector& other): VLVector() { _copyMembers(other); }
copyConstruct(m, o, other, k, ub) ==
  _copyMembers([m EXCEPT !.obj[o] = DefaultObject(o)], o, other, k, ub)

\* VLVector(first, last): VLVector() { insert(begin(), first, last); }
rangeConstruct(m, o, R, k, ub) ==
  insertRange([m EXCEPT !.obj[o] = DefaultObject(o)], o, 0, R, k, ub).m

\* ~VLVector() without the delete[].
destroyKeepBlock(m, o) ==
  [m EXCEPT !.obj[o] = NoObject(o)]

\* ~VLVector(), after which the object is gone.
destroy(m, o) ==
  LET mFree == IF m.obj[o]._capacity > StaticCapacity
                 THEN Delete(m, m.obj[o]._data)
                 ELSE m
  IN [mFree EXCEPT !.obj[o] = NoObject(o)]

\* ------------------------------------------------------------------------
\* The program: calls on the objects, one action per member function
\* ------------------------------------------------------------------------
\* The source ranges handed to insert and to the range constructor.
Ranges == UNION {[1..n -> Val] : n \in 0..MaxRange}

NoIter == <<NullBase, 0>>

Commit(m, call) ==
  /\ UNCHANGED StaticCapacity
  /\ obj' = m.obj
  /\ heap' = m.heap
  /\ last' = call

Now == Machine(obj, heap)

\* The program is between two calls: the last call has returned and its
\* result has been taken.
Idle == last = NoCall

\* The caller takes the result of the call that returned.
Return ==
  /\ ~Idle
  /\ last' = NoCall
  /\ UNCHANGED <<StaticCapacity, obj, heap>>

Grows(o, n) == obj[o]._size + n > obj[o]._capacity

\* Whether object o's _data is a released block.
Dangling(o) == IsHeap(obj[o]._data) /\ ~heap[obj[o]._data[2]].live

\* The outcomes to draw for a call on o: one is drawn only where a store of
\* the call can reach a released block, which is where _data is one already
\* or where the call releases the block before it stores (operator=).
UBChoices(o, releasesFirst) ==
  IF Dangling(o) \/ releasesFirst THEN UBOutcomes ELSE {"stored"}

PushBack(o, bound) ==
  /\ Idle
  /\ obj[o].alive
  /\ obj[o]._size < bound
  /\ \E value \in Val, k \in AllocChoices(heap, Grows(o, 1)), ub \in UBChoices(o, FALSE) :
       LET m == push_back(Now, o, value, k, ub)
       IN Commit(m, Call("push_back", o, o, obj[o]._size, 0, <<value>>, NoIter, m))

Insert(o, bound) ==
  /\ Idle
  /\ obj[o].alive
  /\ obj[o]._size < bound
  /\ \E idx \in 0..obj[o]._size, value \in Val,
        k \in AllocChoices(heap, Grows(o, 1)), ub \in UBChoices(o, FALSE) :
       LET r == insertValue(Now, o, idx, value, k, ub)
       IN Commit(r.m, Call("insert", o, o, idx, 0, <<value>>, r.ret, r.m))

InsertRange(o, bound) ==
  /\ Idle
  /\ obj[o].alive
  /\ \E posIdx \in 0..obj[o]._size, R \in Ranges :
       /\ obj[o]._size + Len(R) <= bound
       /\ \E k \in AllocChoices(heap, Grows(o, Len(R))), ub \in UBChoices(o, FALSE) :
            LET r == insertRange(Now, o, posIdx, R, k, ub)
            IN Commit(r.m, Call("insertRange", o, o, posIdx, 0, R, r.ret, r.m))

Erase(o) ==
  /\ Idle
  /\ obj[o].alive
  /\ \E idx \in 0..(obj[o]._size - 1), ub \in UBChoices(o, FALSE) :
       LET r == eraseOne(Now, o, idx, ub)
       IN Commit(r.m, Call("erase", o, o, idx, idx + 1, <<>>, r.ret, r.m))

EraseRange(o) ==
  /\ Idle
  /\ obj[o].alive
  /\ \E firstIdx \in 0..obj[o]._size, ub \in UBChoices(o, FALSE) :
       \E lastIdx \in firstIdx..obj[o]._size :
         LET r == erase(Now, o, firstIdx, lastIdx, ub)
         IN Commit(r.m, Call("eraseRange", o, o, firstIdx, lastIdx, <<>>, r.ret, r.m))

PopBack(o) ==
  /\ Idle
  /\ obj[o].alive
  /\ obj[o]._size > 0
  /\ \E ub \in UBChoices(o, FALSE) :
       LET m == pop_back(Now, o, ub)
       IN Commit(m, Call("pop_back", o, o, obj[o]._size - 1, obj[o]._size, <<>>,
                         NoIter, m))

Clear(o) ==
  /\ Idle
  /\ obj[o].alive
  /\ \E ub \in UBChoices(o, FALSE) :
       LET m == clear(Now, o, ub)
       IN Commit(m, Call("clear", o, o, 0, obj[o]._size, <<>>, NoIter, m))

\* o = other;
Assign(o) ==
  /\ Idle
  /\ obj[o].alive
  /\ \E other \in Objs :
       /\ obj[other].alive
       /\ \E k \in AllocChoices(assignRelease(Now, o).heap,
                                 other /= o /\ obj[other]._capacity > StaticCapacity),
             ub \in UBChoices(o, other /= o /\ obj[o]._capacity > StaticCapacity) :
            LET m == assign(Now, o, other, k, ub)
            IN Commit(m, Call("assign", o, other, 0, 0, <<>>, NoIter, m))

\* o.at(index), with an index inside or outside the container.
At(o) ==
  /\ Idle
  /\ obj[o].alive
  /\ \E index \in 0..(obj[o]._size + 1) :
       LET r == at(Now, o, index)
       IN Commit(Now, [Call("at", o, o, index, 0, <<>>, r.ret, Now)
                         EXCEPT !.val = r.val, !.thrown = r.thrown])

\* o != other
NotEqual(o) ==
  /\ Idle
  /\ obj[o].alive
  /\ \E other \in Objs :
       /\ obj[other].alive
       /\ \E k \in AllocChoices(assignRelease(Now, o).heap,
                                 other /= o /\ obj[other]._capacity > StaticCapacity),
             ub \in UBChoices(o, other /= o /\ obj[o]._capacity > StaticCapacity),
             neg \in BOOLEAN :
            LET r == operatorNotEqual(Now, o, other, k, ub, neg)
            IN Commit(r.m, [Call("operator!=", o, other, 0, 0, <<>>, NoIter, r.m)
                              EXCEPT !.truth = r.truth])

\* VLVector o;
DefaultConstruct(o) ==
  /\ Idle
  /\ ~obj[o].alive
  /\ LET m == [Now EXCEPT !.obj[o] = DefaultObject(o)]
     IN Commit(m, Call("construct", o, o, 0, 0, <<>>, NoIter, m))

\* VLVector o(other);
CopyConstruct(o) ==
  /\ Idle
  /\ ~obj[o].alive
  /\ \E other \in Objs \ {o} :
       /\ obj[other].alive
       /\ \E k \in AllocChoices(heap, obj[other]._capacity > StaticCapacity),
             ub \in UBChoices(o, FALSE) :
            LET m == copyConstruct(Now, o, other, k, ub)
            IN Commit(m, Call("copyConstruct", o, other, 0, 0, <<>>, NoIter, m))

\* VLVector o(first, last);
RangeConstruct(o, bound) ==
  /\ Idle
  /\ ~obj[o].alive
  /\ \E R \in Ranges :
       /\ Len(R) <= bound
       /\ \E k \in AllocChoices(heap, Len(R) > StaticCapacity), ub \in UBChoices(o, FALSE) :
            LET m == rangeConstruct(Now, o, R, k, ub)
            IN Commit(m, Call("rangeConstruct", o, o, 0, 0, R, NoIter, m))

\* o goes out of scope.
Destroy(o) ==
  /\ Idle
  /\ obj[o].alive
  /\ LET m == destroy(Now, o)
     IN Commit(m, Call("destroy", o, o, 0, 0, <<>>, NoIter, m))

\* ------------------------------------------------------------------------
\* Specifications
\* ------------------------------------------------------------------------
NoHeap == [k \in Blocks |-> [live |-> FALSE, cells |-> <<>>]]

\* Two objects, both default-constructed, every member function callable on
\* either.
Init ==
  /\ StaticCapacity = CapTwoObjects
  /\ obj = [o \in Objs |-> DefaultObject(o)]
  /\ heap = NoHeap
  /\ last = NoCall

Next ==
  \/ \E o \in Objs : PushBack(o, MaxSize)
  \/ \E o \in Objs : Insert(o, MaxSize)
  \/ \E o \in Objs : InsertRange(o, MaxSize)
  \/ \E o \in Objs : Erase(o)
  \/ \E o \in Objs : EraseRange(o)
  \/ \E o \in Objs : PopBack(o)
  \/ \E o \in Objs : Clear(o)
  \/ \E o \in Objs : Assign(o)
  \/ \E o \in Objs : At(o)
  \/ \E o \in Objs : DefaultConstruct(o)
  \/ \E o \in Objs : CopyConstruct(o)
  \/ \E o \in Objs : RangeConstruct(o, MaxSize)
  \/ \E o \in Objs : Destroy(o)
  \/ Return

Spec == Init /\ [][Next]_vars

\* One object, "a", with room to grow from one heap block into a larger one.
InitOne ==
  /\ StaticCapacity = CapOneObject
  /\ obj = [o \in Objs |-> IF o = "a" THEN DefaultObject(o) ELSE NoObject(o)]
  /\ heap = NoHeap
  /\ last = NoCall

NextOne ==
  \/ PushBack("a", MaxSizeOne)
  \/ Insert("a", MaxSizeOne)
  \/ InsertRange("a", MaxSizeOne)
  \/ Erase("a")
  \/ EraseRange("a")
  \/ PopBack("a")
  \/ Clear("a")
  \/ DefaultConstruct("a")
  \/ RangeConstruct("a", MaxSizeOne)
  \/ Destroy("a")
  \/ Return

SpecOne == InitOne /\ [][NextOne]_vars

\* A default-constructed container on which only push_back is called.
MaxPush == 6

NextPush == PushBack("a", MaxPush) \/ Return

SpecPush == InitOne /\ [][NextPush]_vars

\* Two objects that are filled, emptied and compared with !=.
NextCompare ==
  \/ \E o \in Objs : PushBack(o, MaxSize)
  \/ \E o \in Objs : PopBack(o)
  \/ \E o \in Objs : NotEqual(o)
  \/ Return

SpecCompare == Init /\ [][NextCompare]_vars

\* Largest number of elements a container of the program below may hold: one
\* more than the first heap block of a VLVector<T, 1> has room for.
MaxHeapSize == 4

\* Two objects: a is filled, with room to grow from one heap block into a
\* larger one, and emptied; b is assigned from a and a from b, emptied,
\* destroyed and constructed anew as a copy of a.
NextHeap ==
  \/ PushBack("a", MaxHeapSize)
  \/ \E o \in Objs : PopBack(o)
  \/ \E o \in Objs : Assign(o)
  \/ CopyConstruct("b")
  \/ Destroy("b")
  \/ Return

SpecHeap == Init /\ [][NextHeap]_vars

\* ------------------------------------------------------------------------
\* Properties
\* ------------------------------------------------------------------------
InsertOps == {"push_back", "insert", "insertRange"}
EraseOps == {"erase", "eraseRange", "pop_back", "clear"}
CopyOps == {"assign", "copyConstruct"}

\* The heap block base names is allocated (not released).
LiveBlock(base) == IsHeap(base) /\ heap[base[2]].live

\* The number of slots of the block base names.
Slots(base) == Len(heap[base[2]].cells)

\* The last call copied one object into another one.
Copied == last.op \in CopyOps /\ last.o /= last.src

\* C1: in every reachable state the active storage of a container is its own
\* inline buffer if and only if capacity == StaticCapacity, and otherwise it
\* is an allocated heap block of exactly capacity slots that no other
\* container holds.
C1_ActiveStorageMatchesCapacity ==
  \A o \in Objs :
    obj[o].alive =>
      /\ (obj[o]._data = StaticBase(o)) <=> (obj[o]._capacity = StaticCapacity)
      /\ obj[o]._data /= StaticBase(o) =>
           /\ LiveBlock(obj[o]._data)
           /\ Slots(obj[o]._data) = obj[o]._capacity
           /\ \A p \in Objs \ {o} : obj[p].alive => obj[p]._data /= obj[o]._data

\* C2: after b = a or b(a), b and a distinct: if a is in inline mode, b's
\* active storage is b's own inline buffer; if a is in heap mode, it is an
\* allocated heap block of exactly a.capacity slots that is not a's block.
C2_CopyStorage ==
  Copied =>
    LET b == last.o
        a == last.src
    IN /\ (last.pre[a].capacity = StaticCapacity /\ last.pre[a].data = StaticBase(a))
            => obj[b]._data = StaticBase(b)
       /\ (last.pre[a].capacity > StaticCapacity /\ LiveBlock(last.pre[a].data))
            => /\ LiveBlock(obj[b]._data)
               /\ Slots(obj[b]._data) = obj[a]._capacity
               /\ obj[b]._data /= obj[a]._data

\* C3: copy independence.  A push_back, insert, erase or clear on one
\* container leaves the size and the elements of the other container
\* unchanged, and two containers never have the same storage block.  (Two
\* containers have something in common only once one was copied to the
\* other, so the property is stated of every pair of containers.)
C3_CopyIndependence ==
  /\ last.op \in InsertOps \cup EraseOps =>
       \A p \in Objs \ {last.o} :
         (last.pre[p].alive /\ obj[p].alive) =>
           /\ obj[p]._size = last.pre[p].size
           /\ Elems(p) = last.pre[p].elems
  /\ \A o \in Objs, p \in Objs :
       (o /= p /\ obj[o].alive /\ obj[p].alive) => obj[o]._data /= obj[p]._data

\* C4: after b = a or b(a), b has the size, the capacity and the elements of
\* a (b == a is true), and a's size, capacity and elements are what they were.
C4_CopyEqual ==
  Copied =>
    LET b == last.o
        a == last.src
    IN /\ obj[b]._size = obj[a]._size
       /\ obj[b]._capacity = obj[a]._capacity
       /\ Elems(b) = Elems(a)
       /\ Equals(b, a)
       /\ obj[a]._size = last.pre[a].size
       /\ obj[a]._capacity = last.pre[a].capacity
       /\ Elems(a) = last.pre[a].elems

\* floor(1.5 * n)
FloorOneAndHalf(n) == n + n \div 2

\* C5: on a default-constructed container on which only push_back is called,
\* after n <= StaticCapacity pushes capacity == StaticCapacity and the inline
\* buffer is active; after n > StaticCapacity pushes capacity >= n and the
\* active storage is an allocated heap block.  (n is the size.)
C5_PushBackCapacity ==
  LET n == obj["a"]._size
  IN /\ n <= StaticCapacity =>
          /\ obj["a"]._capacity = StaticCapacity
          /\ obj["a"]._data = StaticBase("a")
     /\ n > StaticCapacity =>
          /\ obj["a"]._capacity >= n
          /\ LiveBlock(obj["a"]._data)
          /\ Slots(obj["a"]._data) = obj["a"]._capacity

\* The push that takes the container past StaticCapacity has returned.
C5_Witness ==
  /\ last.op = "push_back"
  /\ last.pre["a"].size = StaticCapacity
  /\ obj["a"]._size = StaticCapacity + 1
  /\ IsHeap(obj["a"]._data)

\* C6: an insertion of n elements with size_before + n > capacity_before
\* leaves capacity == floor(1.5 * (size_before + n)) >= size_before + n,
\* growing out of the inline buffer and growing from a heap block alike.
C6_GrowthCapacity ==
  LET o == last.o
      n == Len(last.R)
      before == last.pre[o]
  IN (last.op \in InsertOps /\ before.size + n > before.capacity) =>
       /\ obj[o]._capacity = FloorOneAndHalf(before.size + n)
       /\ obj[o]._capacity >= before.size + n

\* An insertion has grown the container from one heap block into a larger one.
C6_Witness ==
  /\ last.op \in InsertOps
  /\ last.pre[last.o].capacity > StaticCapacity
  /\ last.pre[last.o].size + Len(last.R) > last.pre[last.o].capacity
  /\ obj[last.o]._capacity > last.pre[last.o].capacity

\* C7: an erase or pop_back on a container in heap mode returns it to the
\* inline buffer with capacity == StaticCapacity exactly if the resulting
\* size is <= StaticCapacity; while the size stays above StaticCapacity the
\* container keeps its heap block and its capacity.
C7_ShrinkBack ==
  LET o == last.o
      before == last.pre[o]
  IN (last.op \in EraseOps /\ before.capacity > StaticCapacity
        /\ before.size > StaticCapacity) =>
       /\ obj[o]._size <= StaticCapacity =>
            /\ obj[o]._capacity = StaticCapacity
            /\ obj[o]._data = StaticBase(o)
       /\ obj[o]._size > StaticCapacity =>
            /\ obj[o]._capacity = before.capacity
            /\ obj[o]._data = before.data
            /\ LiveBlock(obj[o]._data)

\* An erase that left exactly StaticCapacity elements has returned the
\* container to its inline buffer, from a size more than one above it.
C7_Witness ==
  /\ last.op \in EraseOps
  /\ last.pre[last.o].capacity > StaticCapacity
  /\ last.pre[last.o].size > StaticCapacity + 1
  /\ obj[last.o]._size = StaticCapacity
  /\ obj[last.o]._data = StaticBase(last.o)

\* C8: insert(pos, first, last) and insert(pos, value), pos at index i, on a
\* container holding S leave it holding S[0..i) ++ R ++ S[i..size), the size
\* grown by |R|, and return the iterator at index i of the resulting storage.
C8_InsertResult ==
  LET o == last.o
      S == last.pre[o].elems
  IN last.op \in {"insert", "insertRange"} =>
       /\ Elems(o) = SubSeq(S, 1, last.i) \o last.R \o SubSeq(S, last.i + 1, Len(S))
       /\ obj[o]._size = Len(S) + Len(last.R)
       /\ last.ret = <<obj[o]._data, last.i>>

\* Three elements were inserted before begin() of a container holding two,
\* which reallocated.
C8_Witness ==
  /\ last.op = "insertRange"
  /\ last.i = 0
  /\ Len(last.R) = 3
  /\ last.pre[last.o].size = 2
  /\ obj[last.o]._data /= last.pre[last.o].data
  /\ last.ret = <<obj[last.o]._data, 0>>

\* C9: erase(first, last) with first at index i and last at index j on a
\* container holding S leaves it holding S[0..i) ++ S[j..size), the size
\* shrunk by j - i, and returns the iterator at index i of the resulting
\* storage, in place and when shrinking to the inline buffer alike.
C9_EraseResult ==
  LET o == last.o
      S == last.pre[o].elems
  IN /\ last.op \in EraseOps =>
          /\ Elems(o) = SubSeq(S, 1, last.i) \o SubSeq(S, last.j + 1, Len(S))
          /\ obj[o]._size = Len(S) - (last.j - last.i)
     /\ last.op \in {"erase", "eraseRange"} => last.ret = <<obj[o]._data, last.i>>

\* An erase from the middle returned the container to its inline buffer,
\* keeping elements from before and from after the erased range.
C9_Witness ==
  /\ last.op = "eraseRange"
  /\ last.pre[last.o].capacity > StaticCapacity
  /\ obj[last.o]._data = StaticBase(last.o)
  /\ last.i > 0
  /\ last.j > last.i
  /\ last.j < last.pre[last.o].size

\* C10: round trip.  insert(end, v.begin(), v.end()) on an empty container,
\* and range construction from v, leave a container whose iteration yields
\* exactly v, with size == |v|.
C10_RoundTrip ==
  LET o == last.o
  IN (\/ last.op = "rangeConstruct"
      \/ (last.op = "insertRange" /\ last.pre[o].size = 0 /\ last.i = 0)) =>
       /\ Elems(o) = last.R
       /\ obj[o]._size = Len(last.R)

\* A container was constructed from a range longer than StaticCapacity.
C10_Witness ==
  /\ last.op = "rangeConstruct"
  /\ Len(last.R) > StaticCapacity
  /\ Elems(last.o) = last.R

\* C11: in every reachable state, 0 <= size <= capacity.
C11_SizeWithinCapacity ==
  \A o \in Objs :
    obj[o].alive => (0 <= obj[o]._size /\ obj[o]._size <= obj[o]._capacity)

\* A copy assignment has left the destination on the heap with as many
\* elements as the model allows.
C11_Witness ==
  /\ last.op = "assign"
  /\ last.o /= last.src
  /\ obj[last.o]._capacity > StaticCapacity
  /\ obj[last.o]._size = MaxSize

\* Container p was in heap mode (capacity > StaticCapacity) when the last call
\* was made and is in inline mode now, and the other way round.  A container
\* constructed or destroyed by the call has switched nothing.
HeapToInline(p) ==
  /\ last.pre[p].alive /\ obj[p].alive
  /\ last.pre[p].capacity > StaticCapacity
  /\ obj[p]._capacity = StaticCapacity

InlineToHeap(p) ==
  /\ last.pre[p].alive /\ obj[p].alive
  /\ last.pre[p].capacity = StaticCapacity
  /\ obj[p]._capacity > StaticCapacity

\* C12: a container switches from heap mode to inline mode only in an erasure
\* on it whose resulting size is <= StaticCapacity, and from inline mode to
\* heap mode only in an insertion on it whose resulting size exceeds
\* StaticCapacity; no other operation changes the storage mode.
C12_ModeTransitions ==
  \A p \in Objs :
    /\ HeapToInline(p) =>
         (last.op \in EraseOps /\ last.o = p /\ obj[p]._size <= StaticCapacity)
    /\ InlineToHeap(p) =>
         (last.op \in InsertOps /\ last.o = p /\ obj[p]._size > StaticCapacity)

\* C12 as amended: the switches of C12, and those of a copy assignment, which
\* gives the destination the mode of the source.
C12_ModeTransitionsOrAssign ==
  \A p \in Objs :
    /\ HeapToInline(p) =>
         \/ last.op \in EraseOps /\ last.o = p /\ obj[p]._size <= StaticCapacity
         \/ /\ last.op = "assign" /\ last.o = p /\ last.src /= p
            /\ last.pre[last.src].capacity = StaticCapacity
    /\ InlineToHeap(p) =>
         \/ last.op \in InsertOps /\ last.o = p /\ obj[p]._size > StaticCapacity
         \/ /\ last.op = "assign" /\ last.o = p /\ last.src /= p
            /\ last.pre[last.src].capacity > StaticCapacity

\* A copy assignment has taken an inline container to the heap.
C12_Witness == last.op = "assign" /\ InlineToHeap(last.o)

\* C13: after clear(), size == 0, empty() is true, capacity == StaticCapacity,
\* the active storage is the container's own inline buffer, and the heap block
\* the container held before the call is released.
C13_ClearResets ==
  last.op = "clear" =>
    LET o == last.o
    IN /\ obj[o]._size = 0
       /\ Elems(o) = <<>>
       /\ obj[o]._capacity = StaticCapacity
       /\ obj[o]._data = StaticBase(o)
       /\ IsHeap(last.pre[o].data) => ~LiveBlock(last.pre[o].data)

\* C14: a != b returns the logical negation of a == b: true exactly when a
\* and b differ in size or in some element in iteration order.
C14_NotEqualNegatesEqual ==
  last.op = "operator!=" =>
    LET a == last.o
        b == last.src
    IN last.truth <=> (\/ last.pre[a].size /= last.pre[b].size
                       \/ last.pre[a].elems /= last.pre[b].elems)

\* C15: at(i) with i >= size (i == size included) throws the out-of-range
\* error and leaves size, capacity and the elements unchanged; at(i) with
\* i < size returns the element operator[](i) returns, which is element i of
\* the container.
C15_CheckedAccess ==
  last.op = "at" =>
    LET o == last.o
        i == last.i
    IN /\ i >= last.pre[o].size =>
            /\ last.thrown
            /\ obj[o]._size = last.pre[o].size
            /\ obj[o]._capacity = last.pre[o].capacity
            /\ Elems(o) = last.pre[o].elems
       /\ i < last.pre[o].size =>
            /\ ~last.thrown
            /\ last.ret = subscript(Now, o, i).ret
            /\ last.val = subscript(Now, o, i).val
            /\ last.val = last.pre[o].elems[i + 1]

\* at(size()) has thrown on a container that holds elements in a heap block.
C15_Witness ==
  /\ last.op = "at"
  /\ last.i = obj[last.o]._size
  /\ last.thrown
  /\ obj[last.o]._size > StaticCapacity
  /\ LiveBlock(obj[last.o]._data)

\* C16: erase(p, p), p anywhere in [begin(), end()], in inline mode or in heap
\* mode, returns p and leaves size, capacity, the active storage and the
\* elements unchanged.
C16_EraseEmptyRange ==
  (last.op = "eraseRange" /\ last.i = last.j) =>
    LET o == last.o
    IN /\ last.ret = <<last.pre[o].data, last.i>>
       /\ obj[o]._size = last.pre[o].size
       /\ obj[o]._capacity = last.pre[o].capacity
       /\ obj[o]._data = last.pre[o].data
       /\ Elems(o) = last.pre[o].elems

\* erase(p, p) was called in heap mode with p inside the elements.
C16_Witness ==
  /\ last.op = "eraseRange"
  /\ last.i = last.j
  /\ 0 < last.i /\ last.i < obj[last.o]._size
  /\ last.pre[last.o].capacity > StaticCapacity
  /\ LiveBlock(obj[last.o]._data)

\* C17: release ordering.  An insertion that reallocates and an erasure that
\* shrinks to inline release the old block only once the prefix copy, the
\* shift and the write routine are done, so no step of any operation reads
\* or writes a block after it was released; the inline buffer is never
\* released.
C17_ReleaseOrdering ==
  /\ last.op /= "none" => ~last.uaf
  /\ ~last.freedInline
  /\ \A o \in Objs :
       (/\ last.op \in InsertOps \cup EraseOps
        /\ last.o = o
        /\ IsHeap(last.pre[o].data)
        /\ obj[o]._data /= last.pre[o].data) => ~LiveBlock(last.pre[o].data)

\* The containers that hold block k: those in heap mode whose _data it is.
Holders(k) ==
  {o \in Objs : /\ obj[o].alive
                /\ obj[o]._capacity > StaticCapacity
                /\ obj[o]._data = HeapBase(k)}

\* C18: heap accounting.  No call releases a block that is not allocated (no
\* block is released twice), and every block that is allocated and not
\* released is held by exactly one living container, which holds no other:
\* nothing is left of a container that was destroyed, and nothing leaks.
C18_HeapAccounting ==
  /\ ~last.badFree
  /\ \A k \in Blocks : heap[k].live => Cardinality(Holders(k)) = 1
  /\ \A o \in Objs :
       obj[o].alive => Cardinality({k \in Blocks : heap[k].live /\ o \in Holders(k)}) <= 1

\* A container on the heap was destroyed while the other one was on the heap
\* too: its block is released and the other's is not.
C18_Witness ==
  /\ last.op = "destroy"
  /\ last.pre[last.o].capacity > StaticCapacity
  /\ ~LiveBlock(last.pre[last.o].data)
  /\ \E p \in Objs \ {last.o} : obj[p].alive /\ LiveBlock(obj[p]._data)

\* C19: in every reachable state capacity > StaticCapacity implies
\* size > StaticCapacity: no container is on the heap while it holds
\* StaticCapacity elements or fewer, whether an insertion, an erasure, a copy
\* construction or a copy assignment brought it there.
C19_HeapOnlyWhenNeeded ==
  \A o \in Objs :
    (obj[o].alive /\ obj[o]._capacity > StaticCapacity)
      => obj[o]._size > StaticCapacity

\* An erasure has left a container on the heap with one element more than
\* the inline buffer holds.
C19_Witness ==
  /\ last.op \in EraseOps
  /\ last.pre[last.o].size > obj[last.o]._size
  /\ obj[last.o]._capacity > StaticCapacity
  /\ obj[last.o]._size = StaticCapacity + 1

====
